---- MODULE Spec2Model ----
(***************************************************************************)
(* Model of library.go (package books): the transactional import pipeline  *)
(* ImportBook with its helpers, alone and in two concurrent calls, the     *)
(* paged search SearchPaged, the hydration GetBooksById, and the file      *)
(* helpers moveFile, copyFile and GetUniqueName.                           *)
(*                                                                         *)
(* The store is a record of tables.  A table with an integer primary key   *)
(* is a sequence of rows: no statement of library.go deletes a row, so the *)
(* rowid SQLite assigns to an insert (largest rowid + 1) is the index of   *)
(* the new row.  books_fts is a function from docid to document, since     *)
(* its docid is given by the inserting statement.                          *)
(*                                                                         *)
(* db is the committed store; tx is the working copy the open transaction  *)
(* reads and writes (a transaction sees its own writes); Commit publishes  *)
(* tx as db, Rollback discards it.                                         *)
(*                                                                         *)
(* A text column is a sequence of atoms: a name is one atom, and the       *)
(* separators " " and " & " are atoms of their own, so that Go's string    *)
(* concatenation is \o and the empty string is << >>.                      *)
(***************************************************************************)
EXTENDS Integers, Sequences, FiniteSets, TLC

----------------------------------------------------------------------------
(* Bounds of the model *)

\* longest author list of an import request
MaxAuthors == 2
\* most books of a catalog that is searched
MaxBooks == 5
\* largest offset, limit and moreResultsLimit of a search
MaxOffset == 2
MaxLimit == 3
MaxCap == 10
\* largest number of a numbered file name that can exist
MaxIndex == 2
Titles == {"T1", "T2"}
AuthorNames == {"A", "B"}
TagNames == {"t", "u"}
Hashes == {"h1", "h2"}

RECURSIVE SeqsUpTo(_, _)
SeqsUpTo(S, n) ==
    IF n = 0 THEN {<< >>}
    ELSE LET shorter == SeqsUpTo(S, n - 1)
         IN  shorter \cup {Append(s, x) : s \in shorter, x \in S}

AuthorLists == SeqsUpTo(AuthorNames, MaxAuthors)
\* the tag lists of a request: up to two tags
TagLists == SeqsUpTo(TagNames, 2)

----------------------------------------------------------------------------
(* Text helpers *)

\* a Go string holding one name, as a text
Text(s) == IF s = "" THEN << >> ELSE <<s>>

\* strings.Join(items, sep)
RECURSIVE Join(_, _)
Join(items, sep) ==
    IF Len(items) = 0 THEN << >>
    ELSE IF Len(items) = 1 THEN Text(items[1])
    ELSE Text(items[1]) \o <<sep>> \o Join(Tail(items), sep)

Separators == {" ", " & "}

\* the tokens of a text column: its atoms other than the separators
Tokens(text) == {text[k] : k \in DOMAIN text} \ Separators

\* number of occurrences of atom a in a text
Occurrences(text, a) == Cardinality({k \in DOMAIN text : text[k] = a})

Range(s) == {s[k] : k \in DOMAIN s}

----------------------------------------------------------------------------
(* The store: the tables of initialSchema *)

EmptyStore ==
    [books |-> << >>, files |-> << >>, authors |-> << >>,
     books_authors |-> << >>, tags |-> << >>, files_tags |-> << >>,
     books_fts |-> << >>]

\* the ids of the rows of a table that satisfy Test, in rowid order
RECURSIVE IdsWhereFrom(_, _, _)
IdsWhereFrom(table, Test(_), k) ==
    IF k > Len(table) THEN << >>
    ELSE (IF Test(table[k]) THEN <<k>> ELSE << >>) \o IdsWhereFrom(table, Test, k + 1)

IdsWhere(table, Test(_)) == IdsWhereFrom(table, Test, 1)

\* select id from files where hash=?
selectFilesByHash(t, hash) ==
    LET Test(row) == row.hash = hash IN IdsWhere(t.files, Test)

\* select id from books where title = ?
selectBooksByTitle(t, title) ==
    LET Test(row) == row.title = title IN IdsWhere(t.books, Test)

\* select id from authors where name=?   (also: from tags)
selectByName(table, name) ==
    LET Test(row) == row.name = name IN IdsWhere(table, Test)

\* insert into books (series, title): no constraint can reject it
insertBooksRow(t, series, title) ==
    [t EXCEPT !.books = Append(@, [series |-> series, title |-> title])]

\* insert into authors (name): name is unique
insertAuthorsRowOk(t, name) == selectByName(t.authors, name) = << >>
insertAuthorsRow(t, name) == [t EXCEPT !.authors = Append(@, [name |-> name])]

\* insert into tags (name): name is unique
insertTagsRowOk(t, name) == selectByName(t.tags, name) = << >>
insertTagsRow(t, name) == [t EXCEPT !.tags = Append(@, [name |-> name])]

\* a plain insert into books_authors, were the pair not unique
insertBooksAuthorsAlways(t, bookId, authorId) ==
    [t EXCEPT !.books_authors = Append(@, [book_id |-> bookId, author_id |-> authorId])]

\* insert or ignore into books_authors: unique (book_id, author_id)
insertOrIgnoreBooksAuthors(t, bookId, authorId) ==
    LET row == [book_id |-> bookId, author_id |-> authorId]
    IN  IF row \in Range(t.books_authors) THEN t
        ELSE [t EXCEPT !.books_authors = Append(@, row)]

\* insert or ignore into files_tags: unique (file_id, tag_id)
insertOrIgnoreFilesTags(t, fileId, tagId) ==
    LET row == [file_id |-> fileId, tag_id |-> tagId]
    IN  IF row \in Range(t.files_tags) THEN t
        ELSE [t EXCEPT !.files_tags = Append(@, row)]

\* insert into files: hash is unique (no connection of library.go turns on
\* foreign_keys, so SQLite does not check book_id)
insertFilesRowOk(t, bookId, bf) == selectFilesByHash(t, bf.Hash) = << >>
insertFilesRow(t, bookId, bf) ==
    [t EXCEPT !.files = Append(@, [book_id |-> bookId, extension |-> bf.Extension,
                                   hash |-> bf.Hash, source |-> bf.Source])]

----------------------------------------------------------------------------
(* Identity resolution *)

\* the same rows, were the query to order them by author id
authorRowsByAuthorId(t, ids) ==
    LET Test(row) == row.book_id \in Range(ids) /\ row.author_id \in DOMAIN t.authors
        links == SortSeq(IdsWhere(t.books_authors, Test),
                         LAMBDA x, y : t.books_authors[x].author_id < t.books_authors[y].author_id)
    IN  [k \in DOMAIN links |->
            [book_id |-> t.books_authors[links[k]].book_id,
             name |-> t.authors[t.books_authors[links[k]].author_id].name]]

\* the rows of: SELECT ba.book_id, a.name FROM books_authors ba JOIN authors a
\* ON ba.author_id = a.id WHERE ba.book_id IN (ids) ORDER BY ba.id
authorRows(t, ids) ==
    LET Test(row) == row.book_id \in Range(ids) /\ row.author_id \in DOMAIN t.authors
        links == IdsWhere(t.books_authors, Test)
    IN  [k \in DOMAIN links |->
            [book_id |-> t.books_authors[links[k]].book_id,
             name |-> t.authors[t.books_authors[links[k]].author_id].name]]

RECURSIVE namesOf(_, _)
namesOf(rows, bookId) ==
    IF rows = << >> THEN << >>
    ELSE (IF Head(rows).book_id = bookId THEN <<Head(rows).name>> ELSE << >>)
         \o namesOf(Tail(rows), bookId)

\* the map from book id to author names: a book without a link row has no key
getAuthorsByBookIds(t, ids) ==
    IF Len(ids) = 0 THEN << >>
    ELSE LET rows == authorRows(t, ids)
         IN  [b \in {rows[k].book_id : k \in DOMAIN rows} |-> namesOf(rows, b)]

\* a comparison that takes the author lists as sets
authorsEqualAnyOrder(a, b) ==
    /\ Len(a) = Len(b)
    /\ Range(a) = Range(b)

authorsEqual(a, b) ==
    /\ Len(a) = Len(b)
    /\ \A k \in DOMAIN a : a[k] = b[k]

\* The results getBookIdByTitleAndAuthors can return when no query fails: Go
\* ranges over authorMap in an unspecified order, so any matching key can be
\* the one returned.
getBookIdByTitleAndAuthors(t, title, authors) ==
    LET ids == selectBooksByTitle(t, title)
        authorMap == getAuthorsByBookIds(t, ids)
        matching == {b \in DOMAIN authorMap : authorsEqual(authors, authorMap[b])}
    IN  IF matching = {} THEN {[id |-> 0, found |-> FALSE]}
        ELSE {[id |-> b, found |-> TRUE] : b \in matching}

----------------------------------------------------------------------------
(* Search index maintenance *)

\* the document indexBookInSearch inserts for a new book
newDocument(book) ==
    LET bf == book.Files[1]
    IN  [author |-> Join(book.Authors, " & "), series |-> Text(book.Series),
         title |-> Text(book.Title), extension |-> Text(bf.Extension),
         tags |-> Join(bf.Tags, " "), filename |-> << >>, source |-> Text(bf.Source)]

\* insert into books_fts (docid, ...): docid is the table's key
insertFtsOk(t, docid) == docid \notin DOMAIN t.books_fts

\* an insert that writes no document
insertFtsNothing(t, docid, book) == t

insertFts(t, docid, book) ==
    [t EXCEPT !.books_fts = (docid :> newDocument(book)) @@ @]

\* update books_fts set tags=?, extension=?, source=? where docid=?
mergedDocument(doc, bf) ==
    [doc EXCEPT !.tags = @ \o <<" ">> \o Join(bf.Tags, " "),
                !.extension = @ \o <<" ">> \o Text(bf.Extension),
                !.source = @ \o <<" ">> \o Text(bf.Source)]

\* an update without its where clause: every document is merged
updateFtsEveryDocument(t, docid, bf) ==
    [t EXCEPT !.books_fts = [d \in DOMAIN @ |-> mergedDocument(@[d], bf)]]

updateFts(t, docid, bf) ==
    [t EXCEPT !.books_fts = [@ EXCEPT ![docid] = mergedDocument(@, bf)]]

----------------------------------------------------------------------------
(* Outcomes of a call that can fail: err is "nil" or "error", op names the *)
(* operation that failed ("none" when none did), store is the working copy *)
(* the call leaves behind.                                                 *)

Ok(t) == [err |-> "nil", op |-> "none", store |-> t]
Failed(op, t) == [err |-> "error", op |-> op, store |-> t]

\* errors.Wrap(err, ...), errors.Wrapf(err, ...): nil when err is nil
Wrap(err) == IF err = "nil" THEN "nil" ELSE "error"

\* The outcomes of insertAuthor(tx, author, book).  busy: another connection
\* holds the store's write lock, so every writing statement fails.
insertAuthor(t, author, bookId, busy) ==
    LET ids == selectByName(t.authors, author)
        inserted == insertAuthorsRow(t, author)
        link(s, authorId) ==
            {Failed("author_link", s)}
            \cup (IF busy THEN {} ELSE {Ok(insertOrIgnoreBooksAuthors(s, bookId, authorId))})
    IN  {Failed("author_select", t)}
        \cup (IF ids # << >> THEN link(t, ids[1])
              ELSE {Failed("author_insert", t)}
                   \cup (IF busy \/ ~insertAuthorsRowOk(t, author) THEN {}
                         ELSE {Failed("author_lastid", inserted)}
                              \cup link(inserted, Len(inserted.authors))))

\* The outcomes of insertTag(tx, tag, bf).
insertTag(t, tag, fileId, busy) ==
    LET ids == selectByName(t.tags, tag)
        inserted == insertTagsRow(t, tag)
        link(s, tagId) ==
            {Failed("tag_link", s)}
            \cup (IF busy THEN {} ELSE {Ok(insertOrIgnoreFilesTags(s, fileId, tagId))})
    IN  {Failed("tag_select", t)}
        \cup (IF ids # << >> THEN link(t, ids[1])
              ELSE {Failed("tag_insert", t)}
                   \cup (IF busy \/ ~insertTagsRowOk(t, tag) THEN {}
                         ELSE {Failed("tag_lastid", inserted)}
                              \cup link(inserted, Len(inserted.tags))))

\* The outcomes of indexBookInSearch(tx, book, createNew).  When rows.Next()
\* is false because the iteration failed, line 251 returns err, the result
\* of tx.Query, which is nil there.
indexBookInSearch(t, book, bookId, createNew, busy) ==
    IF Len(book.Files) # 1 THEN {Failed("index_files", t)}
    ELSE IF createNew
    THEN {Failed("fts_insert", t)}
         \cup (IF busy \/ ~insertFtsOk(t, bookId) THEN {}
               ELSE {Ok(insertFts(t, bookId, book))})
    ELSE {Failed("fts_query", t), [err |-> "nil", op |-> "fts_iter", store |-> t]}
         \cup (IF bookId \notin DOMAIN t.books_fts THEN {Failed("fts_missing", t)}
               ELSE {Failed("fts_scan", t), Failed("fts_update", t)}
                    \cup (IF busy THEN {}
                          ELSE {Ok(updateFts(t, bookId, book.Files[1]))}))

----------------------------------------------------------------------------
(* File placement.  The file system is the set of paths that exist; an     *)
(* outcome is the error returned and the file system left behind.          *)

\* one step of a placement: the call made and whether it succeeded
Step(op, ok) == [op |-> op, ok |-> ok]

\* copyFile(src, dst): os.Open and Stat need src; once os.Create has run,
\* dst exists whether or not io.Copy and Close succeed
copyFile(files, src, dst) ==
    {[err |-> "error", fs |-> files, steps |-> <<Step("copy", FALSE)>>]}
    \cup (IF src \in files
          THEN {[err |-> "error", fs |-> files \cup {dst}, steps |-> <<Step("copy", FALSE)>>],
                [err |-> "nil", fs |-> files \cup {dst}, steps |-> <<Step("copy", TRUE)>>]}
          ELSE {})

\* a move that takes a failed copy for a finished one
moveFileIgnoringCopyError(files, src, dst) ==
    (IF src \in files
     THEN {[err |-> "nil", fs |-> (files \ {src}) \cup {dst}, steps |-> <<Step("rename", TRUE)>>]}
     ELSE {})
    \cup {[err |-> "nil", fs |-> c.fs \ {src},
           steps |-> <<Step("rename", FALSE)>> \o c.steps \o <<Step("remove", TRUE)>>]
          : c \in copyFile(files, src, dst)}

\* moveFile(src, dst): os.Rename, which needs src; if it fails copyFile, then
\* os.Remove(src), and a failed remove is logged only
moveFile(files, src, dst) ==
    (IF src \in files
     THEN {[err |-> "nil", fs |-> (files \ {src}) \cup {dst}, steps |-> <<Step("rename", TRUE)>>]}
     ELSE {})
    \cup UNION {IF c.err # "nil"
                THEN {[c EXCEPT !.steps = <<Step("rename", FALSE)>> \o @]}
                ELSE {[err |-> "nil", fs |-> c.fs \ {src},
                       steps |-> <<Step("rename", FALSE)>> \o c.steps \o <<Step("remove", TRUE)>>],
                      [err |-> "nil", fs |-> c.fs,
                       steps |-> <<Step("rename", FALSE)>> \o c.steps \o <<Step("remove", FALSE)>>]}
                : c \in copyFile(files, src, dst)}

\* a placement that reports success without looking at the file system
moveOrCopyFileSkipped(files, book, move) ==
    {[err |-> "nil", fs |-> files, steps |-> << >>]}

\* moveOrCopyFile(book, move): directories are not modelled, MkdirAll only
\* succeeds or fails
moveOrCopyFile(files, book, move) ==
    IF Len(book.Files) # 1 THEN {[err |-> "error", fs |-> files, steps |-> << >>]}
    ELSE LET bf == book.Files[1]
         IN  {[err |-> "error", fs |-> files, steps |-> <<Step("mkdir", FALSE)>>]}
             \cup (IF move THEN moveFile(files, bf.OriginalFilename, bf.CurrentFilename)
                   ELSE copyFile(files, bf.OriginalFilename, bf.CurrentFilename))

\* a rollback that publishes the working copy
RollbackKeepsWrites(committed, working) == working

\* tx.Rollback() and tx.Commit(): the committed store they leave
Rollback(committed, working) == committed
Commit(committed, working) == working

----------------------------------------------------------------------------
(* Search and hydration *)

\* books_fts match ?: the query is one term, and a document matches when
\* the term is a token of one of its columns; rows come in docid order
Matches(doc, terms) ==
    terms \in Tokens(doc.author) \cup Tokens(doc.series) \cup Tokens(doc.title)
              \cup Tokens(doc.extension) \cup Tokens(doc.tags)
              \cup Tokens(doc.filename) \cup Tokens(doc.source)

RECURSIVE SortedSeq(_)
SortedSeq(S) ==
    IF S = {} THEN << >>
    ELSE LET least == CHOOSE x \in S : \A y \in S : x <= y
         IN  <<least>> \o SortedSeq(S \ {least})

selectMatching(t, terms) ==
    SortedSeq({d \in DOMAIN t.books_fts : Matches(t.books_fts[d], terms)})

\* SQLite's LIMIT n OFFSET m: a negative n is no limit, a negative m is 0
LimitOffset(rows, n, m) ==
    LET first == (IF m < 0 THEN 0 ELSE m) + 1
        last == IF n < 0 \/ first + n - 1 > Len(rows) THEN Len(rows) ELSE first + n - 1
    IN  SubSeq(rows, first, last)

\* the first n elements of a sequence: what a loop over rows.Next() has seen
\* when the iteration stops after n rows
Seen(rows, n) == SubSeq(rows, 1, IF n < Len(rows) THEN n ELSE Len(rows))

\* the rows of: SELECT ft.file_id, t.name FROM files_tags ft JOIN tags t
\* ON ft.tag_id = t.id WHERE ft.file_id IN (ids) ORDER BY ft.id
tagRows(t, ids) ==
    LET Test(row) == row.file_id \in Range(ids) /\ row.tag_id \in DOMAIN t.tags
        links == IdsWhere(t.files_tags, Test)
    IN  [k \in DOMAIN links |->
            [book_id |-> t.files_tags[links[k]].file_id,
             name |-> t.tags[t.files_tags[links[k]].tag_id].name]]

\* getTagsByFileIds(tx, ids) when the loop sees the first n rows: rows.Err()
\* is not read after the loop, so the map of the rows seen is returned
getTagsByFileIdsSeen(t, ids, n) ==
    LET rows == Seen(tagRows(t, ids), n)
    IN  IF Len(ids) = 0 THEN << >>
        ELSE [f \in {rows[k].book_id : k \in DOMAIN rows} |-> namesOf(rows, f)]

getTagsByFileIds(t, ids) == getTagsByFileIdsSeen(t, ids, Len(t.files_tags))

\* m[key] of a Go map: the zero value when the key is absent
Lookup(m, key) == IF key \in DOMAIN m THEN m[key] ELSE << >>

\* getFilesById(tx, ids) when the tag loop sees tagsSeen rows and the file
\* loop rowsSeen rows: the file rows in rowid order, each with its tags
getFilesByIdSeen(t, ids, tagsSeen, rowsSeen) ==
    LET tagMap == getTagsByFileIdsSeen(t, ids, tagsSeen)
        rows == Seen(SortedSeq(Range(ids) \cap DOMAIN t.files), rowsSeen)
    IN  [k \in DOMAIN rows |->
            [Id |-> rows[k], Extension |-> t.files[rows[k]].extension,
             Hash |-> t.files[rows[k]].hash, Source |-> t.files[rows[k]].source,
             Tags |-> Lookup(tagMap, rows[k])]]

getFilesById(t, ids) == getFilesByIdSeen(t, ids, Len(t.files_tags), Len(t.files))

\* getFilesByBookIds(tx, ids) when the loop over (id, book_id) sees idsSeen
\* rows: the files of each book that has one among the rows seen
getFilesByBookIdsSeen(t, ids, idsSeen, tagsSeen, rowsSeen) ==
    LET Test(row) == row.book_id \in Range(ids)
        fileIds == Seen(IdsWhere(t.files, Test), idsSeen)
        OfBook(b) == SelectSeq(fileIds, LAMBDA f : t.files[f].book_id = b)
    IN  [b \in {t.files[fileIds[k]].book_id : k \in DOMAIN fileIds} |->
            getFilesByIdSeen(t, OfBook(b), tagsSeen, rowsSeen)]

getFilesByBookIds(t, ids) ==
    getFilesByBookIdsSeen(t, ids, Len(t.files), Len(t.files_tags), Len(t.files))

\* getAuthorsByBookIds(tx, ids) when its loop sees the first n rows
getAuthorsByBookIdsSeen(t, ids, n) ==
    IF Len(ids) = 0 THEN << >>
    ELSE LET rows == Seen(authorRows(t, ids), n)
         IN  [b \in {rows[k].book_id : k \in DOMAIN rows} |-> namesOf(rows, b)]

\* lines 415-423 and 444-447: the book rows, each with its entry of the maps
hydrateFrom(t, ids, authorMap, fileMap) ==
    LET rows == SortedSeq(Range(ids) \cap DOMAIN t.books)
    IN  [k \in DOMAIN rows |->
            [Id |-> rows[k], Series |-> t.books[rows[k]].series,
             Title |-> t.books[rows[k]].title,
             Authors |-> Lookup(authorMap, rows[k]),
             Files |-> Lookup(fileMap, rows[k])]]

\* the books GetBooksById(ids) returns when nothing fails
hydrate(t, ids) ==
    hydrateFrom(t, ids, getAuthorsByBookIds(t, ids), getFilesByBookIds(t, ids))

\* The books GetBooksById(ids) goes on with when the iteration of one of the
\* helper queries fails after some rows: none of the helpers reads rows.Err(),
\* so each returns what it has and no error.
truncatedHydrations(t, ids) ==
    LET allTags == Len(t.files_tags)
        allFiles == Len(t.files)
        Test(row) == row.book_id \in Range(ids)
        fileMapAll == getFilesByBookIds(t, ids)
        authorMapAll == getAuthorsByBookIds(t, ids)
    IN  {[books |-> hydrateFrom(t, ids, getAuthorsByBookIdsSeen(t, ids, n), fileMapAll),
          op |-> "authors_iter"] : n \in 0..(Len(authorRows(t, ids)) - 1)}
        \cup {[books |-> hydrateFrom(t, ids, authorMapAll,
                            getFilesByBookIdsSeen(t, ids, n, allTags, allFiles)),
               op |-> "file_ids_iter"] : n \in 0..(Len(IdsWhere(t.files, Test)) - 1)}
        \cup {[books |-> hydrateFrom(t, ids, authorMapAll,
                            getFilesByBookIdsSeen(t, ids, allFiles, n, allFiles)),
               op |-> "tags_iter"] : n \in 0..(allTags - 1)}
        \cup {[books |-> hydrateFrom(t, ids, authorMapAll,
                            getFilesByBookIdsSeen(t, ids, allFiles, allTags, n)),
               op |-> "files_iter"] : n \in 0..(allFiles - 1)}

\* The outcomes of GetBooksById(ids): the books and error returned, the
\* operation that failed, and what became of the transaction.  Lines 411-413
\* return on a failed query without tx.Rollback(); line 427 wraps the err of
\* tx.Query, which is nil there, so a failed row iteration returns (nil, nil).
GetBooksById(t, ids) ==
    IF Len(ids) = 0
    THEN {[books |-> << >>, err |-> "nil", op |-> "none", txStatus |-> "none"]}
    ELSE {[books |-> << >>, err |-> "error", op |-> "begin", txStatus |-> "none"],
          [books |-> << >>, err |-> "error", op |-> "books_query", txStatus |-> "open"],
          [books |-> << >>, err |-> "error", op |-> "books_scan", txStatus |-> "rolledback"],
          [books |-> << >>, err |-> Wrap("nil"), op |-> "books_iter", txStatus |-> "rolledback"],
          [books |-> << >>, err |-> "error", op |-> "authors", txStatus |-> "rolledback"],
          [books |-> << >>, err |-> "error", op |-> "files", txStatus |-> "rolledback"],
          [books |-> << >>, err |-> "error", op |-> "commit", txStatus |-> "commit_failed"],
          [books |-> hydrate(t, ids), err |-> "nil", op |-> "none", txStatus |-> "committed"]}
         \cup {[books |-> h.books, err |-> "nil", op |-> h.op, txStatus |-> "committed"] :
                 h \in truncatedHydrations(t, ids)}

\* The outcomes of SearchPaged(terms, offset, limit, moreResultsLimit).
SearchPaged(t, terms, offset, limit, moreResultsLimit) ==
    LET matching == selectMatching(t, terms)
        fetched == IF limit = 0 THEN matching
                   ELSE LimitOffset(matching, limit + moreResultsLimit, offset)
        truncate == limit > 0 /\ Len(fetched) > limit
        moreResults == IF truncate THEN Len(fetched) - limit ELSE 0
        ids == IF truncate THEN SubSeq(fetched, 1, limit) ELSE fetched
    IN  {[books |-> << >>, moreResults |-> 0, err |-> "error", op |-> o, ids |-> << >>,
          txStatus |-> "none"] : o \in {"search_query", "search_iter"}}
        \cup {[books |-> g.books, moreResults |-> moreResults, err |-> g.err, op |-> g.op,
               ids |-> ids, txStatus |-> g.txStatus] : g \in GetBooksById(t, ids)}

----------------------------------------------------------------------------
(* Import requests.  ImportBook's argument is drawn field by field, each    *)
(* field where the code first reads it; a field not yet read is empty.     *)

\* the file with content hash h: its extension, source annotation and paths,
\* and the series the request for it carries
ExtensionOf(h) == IF h = "h1" THEN "epub" ELSE "pdf"
SeriesOf(h) == IF h = "h1" THEN "" ELSE "S"
SourceOf(h) == IF h = "h1" THEN "" ELSE "web"
OriginalFilenameOf(h) == <<"incoming", h>>
CurrentFilenameOf(h) == <<"library", h>>

BookFile(h, tagList) ==
    [Hash |-> h, Extension |-> ExtensionOf(h), Source |-> SourceOf(h), Tags |-> tagList,
     OriginalFilename |-> OriginalFilenameOf(h), CurrentFilename |-> CurrentFilenameOf(h)]

Book(title, series, authors, files) ==
    [Title |-> title, Series |-> series, Authors |-> authors, Files |-> files]

\* the file lists a request can carry: none, one file, two files
FileLists ==
    {<< >>, <<BookFile("h1", << >>), BookFile("h2", << >>)>>}
    \cup {<<BookFile(h, << >>)>> : h \in Hashes}

NoBook == Book("", "", << >>, << >>)

----------------------------------------------------------------------------
(* State *)

VARIABLES
    db,        \* the committed store
    leaked,    \* an abandoned open transaction holds the store's write lock
    pc,        \* where ImportBook is: "returned" once it has returned, "idle"
               \* once the caller has dropped the result
    book,      \* ImportBook's argument
    pre,       \* the committed store when the current (or last) call began
    tx,        \* the working copy of the open transaction
    txStatus,  \* "none", "open", "committed", "rolledback", "commit_failed"
    found,     \* ImportBook's local found
    bookId,    \* book.Id
    fileId,    \* bf.Id
    idx,       \* position of the loop over book.Authors, then over bf.Tags
    ret,       \* what the last call returned: "none" while one is running
    dupId,     \* the id the duplicate error carries
    failed,    \* the operations that failed during the current (or last) call
    imported,  \* history: for each committed file id, the request that made it
    result,    \* what the last SearchPaged, GetBooksById, moveFile or
               \* GetUniqueName returned
    fs,        \* the file system: the paths that exist.  During ImportBook it
               \* is the part placement has looked at: the paths of the request
    procs      \* the locals of each of the concurrent calls of ImportBook

vars == <<db, leaked, pc, book, pre, tx, txStatus, found, bookId, fileId, idx,
          ret, dupId, failed, imported, result, fs, procs>>

NoResult == [call |-> "none", books |-> << >>, moreResults |-> 0, err |-> "none",
             op |-> "none", ids |-> << >>, txStatus |-> "none",
             terms |-> "", offset |-> 0, limit |-> 0, moreResultsLimit |-> 0]

Init ==
    /\ db = EmptyStore
    /\ leaked = FALSE
    /\ pc = "idle"
    /\ book = NoBook
    /\ pre = EmptyStore
    /\ tx = EmptyStore
    /\ txStatus = "none"
    /\ found = FALSE
    /\ bookId = 0
    /\ fileId = 0
    /\ idx = 0
    /\ ret = "none"
    /\ dupId = 0
    /\ failed = {}
    /\ imported = << >>
    /\ result = NoResult
    /\ fs = {}
    /\ procs = << >>

----------------------------------------------------------------------------
(* ImportBook, one action per stage *)

\* ImportBook returns r
Return(r, ops) ==
    /\ pc' = "returned"
    /\ ret' = r
    /\ failed' = failed \cup ops
    /\ found' = FALSE
    /\ bookId' = 0
    /\ fileId' = 0
    /\ idx' = 0

\* tx.Rollback(); return r
RollbackAndReturn(r, ops) ==
    /\ Return(r, ops)
    /\ db' = Rollback(db, tx)
    /\ tx' = EmptyStore
    /\ txStatus' = "rolledback"
    /\ dupId' = 0
    /\ UNCHANGED <<leaked, book, pre, imported, result, fs, procs>>

\* return r with the transaction left open
ReturnWithoutRollback(r, ops, working) ==
    /\ Return(r, ops)
    /\ tx' = working
    /\ txStatus' = "open"
    /\ leaked' = TRUE
    /\ dupId' = 0
    /\ UNCHANGED <<db, book, pre, imported, result, fs, procs>>

\* go on to the next stage with the working copy t
Continue(stage, t) ==
    /\ pc' = stage
    /\ tx' = t
    /\ UNCHANGED <<db, leaked, pre, txStatus, ret, dupId, imported, result, fs, procs>>

\* a precondition that only asks for a file
hasSomeFile(files) == Len(files) >= 1

\* line 134: the precondition len(book.Files) == 1
hasOneFile(files) == Len(files) = 1

\* lines 133-141: the precondition and lib.Begin()
ImportBook_Begin ==
    /\ pc = "idle"
    /\ \E files \in FileLists :
        /\ book' = Book("", IF Len(files) = 1 THEN SeriesOf(files[1].Hash) ELSE "",
                        << >>, files)
        /\ pre' = db
        /\ dupId' = 0
        /\ found' = FALSE
        /\ bookId' = 0
        /\ fileId' = 0
        /\ idx' = 0
        /\ UNCHANGED <<db, leaked, imported, result, fs, procs>>
        /\ IF ~hasOneFile(files)
           THEN /\ pc' = "returned"
                /\ ret' = "error"
                /\ failed' = {"files"}
                /\ tx' = EmptyStore
                /\ txStatus' = "none"
           ELSE \/ /\ pc' = "dedup"
                   /\ ret' = "none"
                   /\ failed' = {}
                   /\ tx' = db
                   /\ txStatus' = "open"
                \/ /\ pc' = "returned"
                   /\ ret' = "error"
                   /\ failed' = {"begin"}
                   /\ tx' = EmptyStore
                   /\ txStatus' = "none"

\* the result of line 159: errors.Wrapf(err, ...) with the err of line 143,
\* which is nil once tx.Query has succeeded
dedupIterationResult == Wrap("nil")

\* lines 143-160: the duplicate check
ImportBook_Dedup ==
    /\ pc = "dedup"
    /\ LET rows == selectFilesByHash(tx, book.Files[1].Hash)
       IN  \/ RollbackAndReturn("error", {"dedup_query"})
           \/ /\ rows # << >>
              /\ Return("duplicate", {})
              /\ db' = Rollback(db, tx)
              /\ tx' = EmptyStore
              /\ txStatus' = "rolledback"
              /\ dupId' = rows[1]
              /\ UNCHANGED <<leaked, book, pre, imported, result, fs, procs>>
           \/ RollbackAndReturn(dedupIterationResult, {"dedup_iter"})
           \/ /\ rows = << >>
              /\ Continue("resolve", tx)
              /\ UNCHANGED <<book, found, bookId, fileId, idx, failed>>

\* lines 162-166 and 184-186: identity resolution
ImportBook_Resolve ==
    /\ pc = "resolve"
    /\ \E title \in Titles, authors \in AuthorLists :
        /\ book' = [book EXCEPT !.Title = title, !.Authors = authors]
        /\ \/ /\ Return("error", {"resolve"})
              /\ db' = Rollback(db, tx)
              /\ tx' = EmptyStore
              /\ txStatus' = "rolledback"
              /\ dupId' = 0
              /\ UNCHANGED <<leaked, pre, imported, result, fs, procs>>
           \/ \E r \in getBookIdByTitleAndAuthors(tx, title, authors) :
                /\ found' = r.found
                /\ bookId' = r.id
                /\ Continue(IF r.found THEN "insertFile" ELSE "insertBook", tx)
                /\ UNCHANGED <<fileId, idx, failed>>

\* lines 167-176: the new book row; a failed LastInsertId returns at once
ImportBook_InsertBook ==
    /\ pc = "insertBook"
    /\ \/ RollbackAndReturn("error", {"book_insert"})
       \/ /\ ~leaked
          /\ ReturnWithoutRollback("error", {"book_lastid"},
                                   insertBooksRow(tx, book.Series, book.Title))
       \/ /\ ~leaked
          /\ bookId' = Len(tx.books) + 1
          /\ idx' = 1
          /\ Continue("authors", insertBooksRow(tx, book.Series, book.Title))
          /\ UNCHANGED <<book, found, fileId, failed>>

\* lines 177-182: one author of the loop
ImportBook_Authors ==
    /\ pc = "authors"
    /\ \/ /\ idx > Len(book.Authors)
          /\ Continue("insertFile", tx)
          /\ UNCHANGED <<book, found, bookId, fileId, idx, failed>>
       \/ /\ idx <= Len(book.Authors)
          /\ \E o \in insertAuthor(tx, book.Authors[idx], bookId, leaked) :
                IF o.err = "nil"
                THEN /\ idx' = idx + 1
                     /\ Continue("authors", o.store)
                     /\ UNCHANGED <<book, found, bookId, fileId, failed>>
                ELSE RollbackAndReturn("error", {o.op})

\* lines 188-201: the file row
ImportBook_InsertFile ==
    /\ pc = "insertFile"
    /\ \/ RollbackAndReturn("error", {"file_insert"})
       \/ /\ ~leaked
          /\ insertFilesRowOk(tx, bookId, book.Files[1])
          /\ \/ RollbackAndReturn("error", {"file_lastid"})
             \/ \E tagList \in TagLists :
                /\ book' = [book EXCEPT !.Files[1].Tags = tagList]
                /\ fileId' = Len(tx.files) + 1
                /\ idx' = 1
                /\ Continue("tags", insertFilesRow(tx, bookId, book.Files[1]))
                /\ UNCHANGED <<found, bookId, failed>>

\* lines 203-208: one tag of the loop
ImportBook_Tags ==
    /\ pc = "tags"
    /\ \/ /\ idx > Len(book.Files[1].Tags)
          /\ Continue("index", tx)
          /\ UNCHANGED <<book, found, bookId, fileId, idx, failed>>
       \/ /\ idx <= Len(book.Files[1].Tags)
          /\ \E o \in insertTag(tx, book.Files[1].Tags[idx], fileId, leaked) :
                IF o.err = "nil"
                THEN /\ idx' = idx + 1
                     /\ Continue("tags", o.store)
                     /\ UNCHANGED <<book, found, bookId, fileId, failed>>
                ELSE RollbackAndReturn("error", {o.op})

\* lines 210-214: index maintenance
ImportBook_Index ==
    /\ pc = "index"
    /\ \E o \in indexBookInSearch(tx, book, bookId, ~found, leaked) :
          IF o.err = "nil"
          THEN /\ failed' = failed \cup ({o.op} \ {"none"})
               /\ Continue("place", o.store)
               /\ UNCHANGED <<book, found, bookId, fileId, idx>>
          ELSE RollbackAndReturn("error", {o.op})

\* the file systems placement can meet: any set of the paths of the request
FileSystems(b) ==
    SUBSET {b.Files[1].OriginalFilename, b.Files[1].CurrentFilename}

\* lines 216-220: file placement, on the file system it finds
ImportBook_Place ==
    /\ pc = "place"
    /\ \E move \in BOOLEAN, files \in FileSystems(book) :
       \E o \in moveOrCopyFile(files, book, move) :
          /\ fs' = o.fs
          /\ IF o.err = "nil"
             THEN /\ pc' = "commit"
                  /\ UNCHANGED <<db, leaked, book, pre, tx, txStatus, found, bookId,
                                 fileId, idx, ret, dupId, failed, imported, result, procs>>
             ELSE /\ Return("error", {"place"})
                  /\ db' = Rollback(db, tx)
                  /\ tx' = EmptyStore
                  /\ txStatus' = "rolledback"
                  /\ dupId' = 0
                  /\ UNCHANGED <<leaked, book, pre, imported, result, procs>>

\* lines 222-225: tx.Commit(), its error dropped, and return nil
ImportBook_Commit ==
    /\ pc = "commit"
    /\ tx' = EmptyStore
    /\ dupId' = 0
    /\ UNCHANGED <<leaked, book, pre, result, fs, procs>>
    /\ \/ /\ Return("nil", {})
          /\ db' = Commit(db, tx)
          /\ txStatus' = "committed"
          /\ imported' = (fileId :> book) @@ imported
       \/ /\ Return("nil", {"commit"})
          /\ db' = db
          /\ txStatus' = "commit_failed"
          /\ UNCHANGED imported

\* the caller drops the result; the arguments and locals of the call are gone
ImportBook_Returned ==
    /\ pc = "returned"
    /\ pc' = "idle"
    /\ book' = NoBook
    /\ pre' = EmptyStore
    /\ tx' = EmptyStore
    /\ txStatus' = "none"
    /\ ret' = "none"
    /\ dupId' = 0
    /\ failed' = {}
    /\ fs' = {}
    /\ UNCHANGED <<db, leaked, found, bookId, fileId, idx, imported, result, procs>>

----------------------------------------------------------------------------
(* Searching a catalog *)

\* the store ImportBook(b) commits from the committed store t when no
\* operation fails
RECURSIVE withAuthors(_, _, _, _)
withAuthors(t, authors, k, id) ==
    IF k > Len(authors) THEN t
    ELSE withAuthors((CHOOSE o \in insertAuthor(t, authors[k], id, FALSE) : o.err = "nil").store,
                     authors, k + 1, id)

RECURSIVE withTags(_, _, _, _)
withTags(t, tagList, k, id) ==
    IF k > Len(tagList) THEN t
    ELSE withTags((CHOOSE o \in insertTag(t, tagList[k], id, FALSE) : o.err = "nil").store,
                  tagList, k + 1, id)

importBook(t, b) ==
    LET r == CHOOSE r \in getBookIdByTitleAndAuthors(t, b.Title, b.Authors) : TRUE
        id == IF r.found THEN r.id ELSE Len(t.books) + 1
        t1 == IF r.found THEN t
              ELSE withAuthors(insertBooksRow(t, b.Series, b.Title), b.Authors, 1, id)
        t2 == insertFilesRow(t1, id, b.Files[1])
        t3 == withTags(t2, b.Files[1].Tags, 1, Len(t2.files))
    IN  (CHOOSE o \in indexBookInSearch(t3, b, id, ~r.found, FALSE) :
            o.err = "nil" /\ o.op = "none").store

\* the titles and hashes of the books of a searched catalog
CatalogTitles == <<"T1", "T2", "T3", "T4", "T5", "T6", "T7", "T8">>
CatalogHashes == <<"h1", "h2", "h3", "h4", "h5", "h6", "h7", "h8">>

CatalogBook(k, tagList) ==
    Book(CatalogTitles[k], SeriesOf(CatalogHashes[k]), <<"A">>,
         <<BookFile(CatalogHashes[k], tagList)>>)

\* the catalog after importing n books, book k with the tags tagging[k]
RECURSIVE Catalog(_, _)
Catalog(n, tagging) ==
    IF n = 0 THEN EmptyStore
    ELSE importBook(Catalog(n - 1, tagging), CatalogBook(n, tagging[n]))

SearchTerms == {"t", "u", "A"}

InitSearch ==
    /\ \E n \in 0..MaxBooks : \E tagging \in [1..n -> {<<"t">>, <<"u">>}] :
        /\ db = Catalog(n, tagging)
        /\ imported = [k \in 1..n |-> CatalogBook(k, tagging[k])]
    /\ leaked = FALSE
    /\ pc = "idle"
    /\ book = NoBook
    /\ pre = EmptyStore
    /\ tx = EmptyStore
    /\ txStatus = "none"
    /\ found = FALSE
    /\ bookId = 0
    /\ fileId = 0
    /\ idx = 0
    /\ ret = "none"
    /\ dupId = 0
    /\ failed = {}
    /\ result = NoResult
    /\ fs = {}
    /\ procs = << >>

\* lines 361-395: one call of SearchPaged on the committed store
SearchPaged_Call ==
    /\ pc = "idle"
    /\ result = NoResult
    /\ \E terms \in SearchTerms, offset \in 0..MaxOffset, limit \in 0..MaxLimit,
          moreResultsLimit \in 0..MaxCap :
       \E o \in SearchPaged(db, terms, offset, limit, moreResultsLimit) :
          result' = [call |-> "SearchPaged", books |-> o.books,
                     moreResults |-> o.moreResults, err |-> o.err, op |-> o.op,
                     ids |-> o.ids, txStatus |-> o.txStatus,
                     terms |-> terms, offset |-> offset, limit |-> limit,
                     moreResultsLimit |-> moreResultsLimit]
    /\ UNCHANGED <<db, leaked, pc, book, pre, tx, txStatus, found, bookId, fileId, idx,
                   ret, dupId, failed, imported, fs, procs>>

\* the caller drops the result of the search
SearchPaged_Returned ==
    /\ result # NoResult
    /\ result' = NoResult
    /\ UNCHANGED <<db, leaked, pc, book, pre, tx, txStatus, found, bookId, fileId, idx,
                   ret, dupId, failed, imported, fs, procs>>

----------------------------------------------------------------------------
(* Hydrating the books of a catalog *)

\* the requests whose imports made a catalog: request k carries the file
\* with hash CatalogHashes[k]
HydrateRequest(k, title, authors, tagList) ==
    Book(title, SeriesOf(CatalogHashes[k]), authors, <<BookFile(CatalogHashes[k], tagList)>>)

\* the store after the imports of a sequence of requests, one after the other
RECURSIVE CatalogOf(_)
CatalogOf(requests) ==
    IF Len(requests) = 0 THEN EmptyStore
    ELSE importBook(CatalogOf(SubSeq(requests, 1, Len(requests) - 1)),
                    requests[Len(requests)])

\* the id lists GetBooksById is called with: none, one book, and every book
\* together with an id that no book has
IdLists(t) ==
    {<< >>, [k \in 1..(Len(t.books) + 1) |-> k]} \cup {<<b>> : b \in DOMAIN t.books}

InitHydrate ==
    /\ \E n \in 0..2 :
       \E titles \in [1..n -> Titles], authors \in [1..n -> AuthorLists],
          tagLists \in [1..n -> TagLists] :
            /\ imported = [k \in 1..n |-> HydrateRequest(k, titles[k], authors[k], tagLists[k])]
            /\ db = CatalogOf(imported)
    /\ leaked = FALSE
    /\ pc = "idle"
    /\ book = NoBook
    /\ pre = EmptyStore
    /\ tx = EmptyStore
    /\ txStatus = "none"
    /\ found = FALSE
    /\ bookId = 0
    /\ fileId = 0
    /\ idx = 0
    /\ ret = "none"
    /\ dupId = 0
    /\ failed = {}
    /\ result = NoResult
    /\ fs = {}
    /\ procs = << >>

\* lines 398-453: one call of GetBooksById on the committed store
GetBooksById_Call ==
    /\ pc = "idle"
    /\ result = NoResult
    /\ \E ids \in IdLists(db) : \E o \in GetBooksById(db, ids) :
          result' = [NoResult EXCEPT !.call = "GetBooksById", !.books = o.books,
                                     !.err = o.err, !.op = o.op, !.ids = ids,
                                     !.txStatus = o.txStatus]
    /\ UNCHANGED <<db, leaked, pc, book, pre, tx, txStatus, found, bookId, fileId, idx,
                   ret, dupId, failed, imported, fs, procs>>

\* the caller drops the books
GetBooksById_Returned ==
    /\ result # NoResult
    /\ result' = NoResult
    /\ UNCHANGED <<db, leaked, pc, book, pre, tx, txStatus, found, bookId, fileId, idx,
                   ret, dupId, failed, imported, fs, procs>>

NextHydrate ==
    \/ GetBooksById_Call
    \/ GetBooksById_Returned

SpecHydrate == InitHydrate /\ [][NextHydrate]_vars

----------------------------------------------------------------------------
(* File names and the file system.  A file name is a sequence of atoms; an *)
(* atom that starts with a dot is an extension.                            *)

Extensions == {".epub"}

\* path.Ext(f): the suffix of f from its last dot on, "" when there is none
Ext(f) == IF Len(f) > 0 /\ f[Len(f)] \in Extensions THEN <<f[Len(f)]>> ELSE << >>

\* strings.TrimSuffix(f, suffix)
TrimSuffix(f, suffix) ==
    IF Len(suffix) <= Len(f) /\ SubSeq(f, Len(f) - Len(suffix) + 1, Len(f)) = suffix
    THEN SubSeq(f, 1, Len(f) - Len(suffix))
    ELSE f

Digits == <<"0", "1", "2", "3", "4", "5", "6", "7", "8", "9">>

\* strconv.Itoa(i) for i >= 0: the decimal digits of i
RECURSIVE Itoa(_)
Itoa(i) ==
    IF i < 10 THEN <<Digits[i + 1]>>
    ELSE Itoa(i \div 10) \o <<Digits[(i % 10) + 1]>>

\* line 674: strings.TrimSuffix(f, ext) + " (" + strconv.Itoa(i) + ")" + ext
numberedName(f, i) == TrimSuffix(f, Ext(f)) \o <<" (">> \o Itoa(i) \o <<")">> \o Ext(f)

\* the error of os.Stat(name): nil when the file exists
Stat(files, name) == IF name \in files THEN "nil" ELSE "error"

\* a search that takes the first numbered name without probing it
RECURSIVE getUniqueNameUnprobed(_, _, _, _)
getUniqueNameUnprobed(files, f, newName, i) ==
    IF Stat(files, newName) = "nil" THEN numberedName(f, i) ELSE newName

\* lines 673-678: the loop of GetUniqueName, at newName with counter i
RECURSIVE getUniqueNameFrom(_, _, _, _)
getUniqueNameFrom(files, f, newName, i) ==
    IF Stat(files, newName) = "nil"
    THEN getUniqueNameFrom(files, f, numberedName(f, i), i + 1)
    ELSE newName

GetUniqueName(files, f) == getUniqueNameFrom(files, f, f, 1)

\* the plain names and the paths of the file system
FileNames == {<<"book", ".epub">>, <<"book">>}
Paths == FileNames \cup {numberedName(f, i) : f \in FileNames, i \in 1..MaxIndex}

InitFiles ==
    /\ fs \in SUBSET Paths
    /\ db = EmptyStore
    /\ imported = << >>
    /\ leaked = FALSE
    /\ pc = "idle"
    /\ book = NoBook
    /\ pre = EmptyStore
    /\ tx = EmptyStore
    /\ txStatus = "none"
    /\ found = FALSE
    /\ bookId = 0
    /\ fileId = 0
    /\ idx = 0
    /\ ret = "none"
    /\ dupId = 0
    /\ failed = {}
    /\ result = NoResult
    /\ procs = << >>

\* lines 668-679: one call of GetUniqueName
GetUniqueName_Call ==
    /\ result = NoResult
    /\ \E f \in Paths :
          result' = [call |-> "GetUniqueName", f |-> f, newName |-> GetUniqueName(fs, f)]
    /\ UNCHANGED <<db, leaked, pc, book, pre, tx, txStatus, found, bookId, fileId, idx,
                   ret, dupId, failed, imported, fs, procs>>

\* lines 647-665: one call of moveFile with two different paths
moveFile_Call ==
    /\ result = NoResult
    /\ \E src \in Paths : \E dst \in Paths \ {src} :
       \E o \in moveFile(fs, src, dst) :
          /\ fs' = o.fs
          /\ result' = [call |-> "moveFile", src |-> src, dst |-> dst, before |-> fs,
                        err |-> o.err, steps |-> o.steps]
    /\ UNCHANGED <<db, leaked, pc, book, pre, tx, txStatus, found, bookId, fileId, idx,
                   ret, dupId, failed, imported, procs>>

\* the caller drops the result
Files_Returned ==
    /\ result # NoResult
    /\ result' = NoResult
    /\ UNCHANGED <<db, leaked, pc, book, pre, tx, txStatus, found, bookId, fileId, idx,
                   ret, dupId, failed, imported, fs, procs>>

NextFiles ==
    \/ GetUniqueName_Call
    \/ moveFile_Call
    \/ Files_Returned

SpecFiles == InitFiles /\ [][NextFiles]_vars

----------------------------------------------------------------------------
(* Concurrent imports.  Each call of ImportBook runs on a connection of its *)
(* own (lib.Begin() takes one from the pool of sql.DB) and SQLite's file   *)
(* locks order the transactions: BEGIN takes no lock; the first read takes *)
(* the shared lock, which lasts until the transaction ends; a write needs  *)
(* the reserved lock, which one connection can hold; COMMIT needs every    *)
(* other connection to hold no lock.  A refused lock is the error          *)
(* SQLITE_BUSY of the statement.  The locals of call p are procs[p].       *)

Procs == {1, 2}

IdleProc ==
    [pc |-> "idle", book |-> NoBook, tx |-> EmptyStore, lock |-> "none",
     txStatus |-> "none", found |-> FALSE, bookId |-> 0, fileId |-> 0, idx |-> 0,
     ret |-> "none", failed |-> {}]

\* the requests of the concurrent calls
RacingAuthorLists == {<<"A">>, <<"B", "A">>}
RacingTagLists == {<< >>, <<"t">>}

\* a write of p is refused: another connection holds the reserved lock
busy(p) == leaked \/ \E q \in Procs \ {p} : procs[q].lock = "reserved"

\* a commit that no lock of another connection holds up
commitNeverBlocked(p) == FALSE

\* the commit of p is refused: another connection holds a lock
commitBlocked(p) == leaked \/ \E q \in Procs \ {p} : procs[q].lock # "none"

\* the variables of the sequential calls, which the concurrent ones leave alone
sequentialVars ==
    <<pc, book, pre, tx, txStatus, found, bookId, fileId, idx, ret, dupId, failed,
      result, fs>>

\* call p goes on as the record r
Becomes(p, r) == procs' = [procs EXCEPT ![p] = r]

\* the locals of p once ImportBook has returned r after tx.Rollback()
RolledBack(p, r, ops) ==
    [IdleProc EXCEPT !.pc = "returned", !.book = procs[p].book, !.ret = r,
                     !.txStatus = "rolledback", !.failed = procs[p].failed \cup ops]

\* p returns r after tx.Rollback(): its locks are released
Conc_RollbackAndReturn(p, r, ops) ==
    /\ Becomes(p, RolledBack(p, r, ops))
    /\ UNCHANGED <<db, leaked, imported>>

\* lines 133-141
Conc_Begin(p) ==
    /\ procs[p].pc = "idle"
    /\ \E h \in Hashes :
        LET files == <<BookFile(h, << >>)>>
            b == Book("", SeriesOf(h), << >>, files)
        IN  /\ hasOneFile(files)
            /\ \/ Becomes(p, [IdleProc EXCEPT !.pc = "dedup", !.book = b, !.txStatus = "open"])
               \/ Becomes(p, [IdleProc EXCEPT !.pc = "returned", !.book = b,
                                              !.ret = "error", !.failed = {"begin"}])
    /\ UNCHANGED <<db, leaked, imported>>

\* lines 143-160: the first read of the transaction sees the committed store
Conc_Dedup(p) ==
    /\ procs[p].pc = "dedup"
    /\ LET rows == selectFilesByHash(db, procs[p].book.Files[1].Hash)
       IN  \/ Conc_RollbackAndReturn(p, "error", {"dedup_query"})
           \/ /\ rows # << >>
              /\ Conc_RollbackAndReturn(p, "duplicate", {})
           \/ Conc_RollbackAndReturn(p, dedupIterationResult, {"dedup_iter"})
           \/ /\ rows = << >>
              /\ Becomes(p, [procs[p] EXCEPT !.pc = "resolve", !.tx = db, !.lock = "shared"])
              /\ UNCHANGED <<db, leaked, imported>>

\* lines 162-166 and 184-186
Conc_Resolve(p) ==
    /\ procs[p].pc = "resolve"
    /\ \E authors \in RacingAuthorLists :
        LET b == [procs[p].book EXCEPT !.Title = "T1", !.Authors = authors]
        IN  \/ /\ Becomes(p, [RolledBack(p, "error", {"resolve"}) EXCEPT !.book = b])
               /\ UNCHANGED <<db, leaked, imported>>
            \/ \E r \in getBookIdByTitleAndAuthors(procs[p].tx, "T1", authors) :
                 /\ Becomes(p, [procs[p] EXCEPT
                                  !.book = b, !.found = r.found, !.bookId = r.id,
                                  !.pc = IF r.found THEN "insertFile" ELSE "insertBook"])
                 /\ UNCHANGED <<db, leaked, imported>>

\* lines 167-176: the abandoned transaction of line 175 keeps the reserved lock
Conc_InsertBook(p) ==
    /\ procs[p].pc = "insertBook"
    /\ LET b == procs[p].book
           written == insertBooksRow(procs[p].tx, b.Series, b.Title)
       IN  \/ Conc_RollbackAndReturn(p, "error", {"book_insert"})
           \/ /\ ~busy(p)
              /\ Becomes(p, [RolledBack(p, "error", {"book_lastid"}) EXCEPT !.txStatus = "open"])
              /\ leaked' = TRUE
              /\ UNCHANGED <<db, imported>>
           \/ /\ ~busy(p)
              /\ Becomes(p, [procs[p] EXCEPT !.pc = "authors", !.tx = written,
                                             !.lock = "reserved", !.idx = 1,
                                             !.bookId = Len(written.books)])
              /\ UNCHANGED <<db, leaked, imported>>

\* lines 177-182
Conc_Authors(p) ==
    /\ procs[p].pc = "authors"
    /\ LET b == procs[p].book
           i == procs[p].idx
       IN  \/ /\ i > Len(b.Authors)
              /\ Becomes(p, [procs[p] EXCEPT !.pc = "insertFile"])
              /\ UNCHANGED <<db, leaked, imported>>
           \/ /\ i <= Len(b.Authors)
              /\ \E o \in insertAuthor(procs[p].tx, b.Authors[i], procs[p].bookId, busy(p)) :
                    IF o.err = "nil"
                    THEN /\ Becomes(p, [procs[p] EXCEPT !.tx = o.store, !.idx = i + 1])
                         /\ UNCHANGED <<db, leaked, imported>>
                    ELSE Conc_RollbackAndReturn(p, "error", {o.op})

\* lines 188-201
Conc_InsertFile(p) ==
    /\ procs[p].pc = "insertFile"
    /\ LET bf == procs[p].book.Files[1]
       IN  \/ Conc_RollbackAndReturn(p, "error", {"file_insert"})
           \/ /\ ~busy(p)
              /\ insertFilesRowOk(procs[p].tx, procs[p].bookId, bf)
              /\ \/ Conc_RollbackAndReturn(p, "error", {"file_lastid"})
                 \/ \E tagList \in RacingTagLists :
                      /\ Becomes(p, [procs[p] EXCEPT
                                       !.book.Files[1].Tags = tagList,
                                       !.tx = insertFilesRow(procs[p].tx, procs[p].bookId, bf),
                                       !.lock = "reserved", !.pc = "tags", !.idx = 1,
                                       !.fileId = Len(procs[p].tx.files) + 1])
                      /\ UNCHANGED <<db, leaked, imported>>

\* lines 203-208
Conc_Tags(p) ==
    /\ procs[p].pc = "tags"
    /\ LET bf == procs[p].book.Files[1]
           i == procs[p].idx
       IN  \/ /\ i > Len(bf.Tags)
              /\ Becomes(p, [procs[p] EXCEPT !.pc = "index"])
              /\ UNCHANGED <<db, leaked, imported>>
           \/ /\ i <= Len(bf.Tags)
              /\ \E o \in insertTag(procs[p].tx, bf.Tags[i], procs[p].fileId, busy(p)) :
                    IF o.err = "nil"
                    THEN /\ Becomes(p, [procs[p] EXCEPT !.tx = o.store, !.idx = i + 1])
                         /\ UNCHANGED <<db, leaked, imported>>
                    ELSE Conc_RollbackAndReturn(p, "error", {o.op})

\* lines 210-214
Conc_Index(p) ==
    /\ procs[p].pc = "index"
    /\ \E o \in indexBookInSearch(procs[p].tx, procs[p].book, procs[p].bookId,
                                  ~procs[p].found, busy(p)) :
          IF o.err = "nil"
          THEN /\ Becomes(p, [procs[p] EXCEPT !.tx = o.store, !.pc = "place",
                                              !.failed = @ \cup ({o.op} \ {"none"})])
               /\ UNCHANGED <<db, leaked, imported>>
          ELSE Conc_RollbackAndReturn(p, "error", {o.op})

\* lines 216-220: the file system placement finds is not kept here
Conc_Place(p) ==
    /\ procs[p].pc = "place"
    /\ \E move \in BOOLEAN, files \in FileSystems(procs[p].book) :
       \E o \in moveOrCopyFile(files, procs[p].book, move) :
          IF o.err = "nil"
          THEN /\ Becomes(p, [procs[p] EXCEPT !.pc = "commit"])
               /\ UNCHANGED <<db, leaked, imported>>
          ELSE Conc_RollbackAndReturn(p, "error", {"place"})

\* lines 222-225: a refused or failed COMMIT ends the transaction all the same,
\* and its error is dropped
Conc_Commit(p) ==
    /\ procs[p].pc = "commit"
    /\ \/ /\ ~commitBlocked(p)
          /\ db' = Commit(db, procs[p].tx)
          /\ imported' = Append(imported, procs[p].book)
          /\ Becomes(p, [RolledBack(p, "nil", {}) EXCEPT !.txStatus = "committed"])
          /\ UNCHANGED leaked
       \/ /\ Becomes(p, [RolledBack(p, "nil", {"commit"}) EXCEPT !.txStatus = "commit_failed"])
          /\ UNCHANGED <<db, leaked, imported>>

\* the caller of p drops the result
Conc_Returned(p) ==
    /\ procs[p].pc = "returned"
    /\ Becomes(p, IdleProc)
    /\ UNCHANGED <<db, leaked, imported>>

InitConcurrent ==
    /\ db = EmptyStore
    /\ leaked = FALSE
    /\ imported = << >>
    /\ procs = [p \in Procs |-> IdleProc]
    /\ pc = "idle"
    /\ book = NoBook
    /\ pre = EmptyStore
    /\ tx = EmptyStore
    /\ txStatus = "none"
    /\ found = FALSE
    /\ bookId = 0
    /\ fileId = 0
    /\ idx = 0
    /\ ret = "none"
    /\ dupId = 0
    /\ failed = {}
    /\ result = NoResult
    /\ fs = {}

Concurrent_Begin == (\E p \in Procs : Conc_Begin(p)) /\ UNCHANGED sequentialVars
Concurrent_Dedup == (\E p \in Procs : Conc_Dedup(p)) /\ UNCHANGED sequentialVars
Concurrent_Resolve == (\E p \in Procs : Conc_Resolve(p)) /\ UNCHANGED sequentialVars
Concurrent_InsertBook == (\E p \in Procs : Conc_InsertBook(p)) /\ UNCHANGED sequentialVars
Concurrent_Authors == (\E p \in Procs : Conc_Authors(p)) /\ UNCHANGED sequentialVars
Concurrent_InsertFile == (\E p \in Procs : Conc_InsertFile(p)) /\ UNCHANGED sequentialVars
Concurrent_Tags == (\E p \in Procs : Conc_Tags(p)) /\ UNCHANGED sequentialVars
Concurrent_Index == (\E p \in Procs : Conc_Index(p)) /\ UNCHANGED sequentialVars
Concurrent_Place == (\E p \in Procs : Conc_Place(p)) /\ UNCHANGED sequentialVars
Concurrent_Commit == (\E p \in Procs : Conc_Commit(p)) /\ UNCHANGED sequentialVars
Concurrent_Returned == (\E p \in Procs : Conc_Returned(p)) /\ UNCHANGED sequentialVars

NextConcurrent ==
    \/ Concurrent_Begin
    \/ Concurrent_Dedup
    \/ Concurrent_Resolve
    \/ Concurrent_InsertBook
    \/ Concurrent_Authors
    \/ Concurrent_InsertFile
    \/ Concurrent_Tags
    \/ Concurrent_Index
    \/ Concurrent_Place
    \/ Concurrent_Commit
    \/ Concurrent_Returned

SpecConcurrent == InitConcurrent /\ [][NextConcurrent]_vars

NextSearch ==
    \/ SearchPaged_Call
    \/ SearchPaged_Returned

SpecSearch == InitSearch /\ [][NextSearch]_vars

(* Imports into a library that already holds books *)

\* the requests whose imports made the library: a book with one file, then
\* a file with the hash h1 for the same or for another book
StoredRequests ==
    {<<Book("T1", SeriesOf("h3"), <<"A">>, <<BookFile("h3", <<"t">>)>>),
       Book(title, SeriesOf("h1"), authors, <<BookFile("h1", << >>)>>)>> :
        title \in Titles, authors \in {<<"A">>, <<"B">>}}

InitStored ==
    /\ \E requests \in StoredRequests :
        /\ imported = requests
        /\ db = CatalogOf(requests)
    /\ leaked = FALSE
    /\ pc = "idle"
    /\ book = NoBook
    /\ pre = EmptyStore
    /\ tx = EmptyStore
    /\ txStatus = "none"
    /\ found = FALSE
    /\ bookId = 0
    /\ fileId = 0
    /\ idx = 0
    /\ ret = "none"
    /\ dupId = 0
    /\ failed = {}
    /\ result = NoResult
    /\ fs = {}
    /\ procs = << >>

----------------------------------------------------------------------------
Next ==
    \/ ImportBook_Begin
    \/ ImportBook_Dedup
    \/ ImportBook_Resolve
    \/ ImportBook_InsertBook
    \/ ImportBook_Authors
    \/ ImportBook_InsertFile
    \/ ImportBook_Tags
    \/ ImportBook_Index
    \/ ImportBook_Place
    \/ ImportBook_Commit
    \/ ImportBook_Returned

Spec == Init /\ [][Next]_vars

SpecStored == InitStored /\ [][Next]_vars

----------------------------------------------------------------------------
(* Properties *)

\* ImportBook has returned from a call that passed the one-file precondition
ReturnedFromImport == pc = "returned" /\ Len(book.Files) = 1

\* the store operations ImportBook issues between Begin and Commit
StoreOperations ==
    {"dedup_query", "dedup_iter", "resolve", "book_insert", "book_lastid",
     "author_select", "author_insert", "author_lastid", "author_link",
     "file_insert", "file_lastid", "tag_select", "tag_insert", "tag_lastid",
     "tag_link", "fts_insert", "fts_query", "fts_iter", "fts_scan", "fts_update"}

\* the ids of the files attached to book b, in id order
filesOfBook(t, b) == LET Test(row) == row.book_id = b IN IdsWhere(t.files, Test)

\* the author names linked to book b, in link order
authorsOfBook(t, b) == namesOf(authorRows(t, <<b>>), b)

\* the tag names linked to file f
tagsOfFile(t, f) ==
    {t.tags[l.tag_id].name : l \in {m \in Range(t.files_tags) : m.file_id = f}}

\* texts put one after the other with a space between them, as line 263 does
RECURSIVE Appended(_)
Appended(texts) ==
    IF Len(texts) = 0 THEN << >>
    ELSE IF Len(texts) = 1 THEN texts[1]
    ELSE Appended(SubSeq(texts, 1, Len(texts) - 1)) \o <<" ">> \o texts[Len(texts)]

\* C1: when a file row with the hash of the request is committed as ImportBook
\* is called, the store is left as it was and the call fails: it returns the
\* duplicate error with the id of that row, or at least the error of the store
\* operation that failed, and the duplicate error whenever none failed.
C1_DuplicateRejected ==
    (ReturnedFromImport /\ selectFilesByHash(pre, book.Files[1].Hash) # << >>) =>
        /\ db = pre
        /\ ret \in {"duplicate", "error"}
        /\ ret = "duplicate" => dupId = selectFilesByHash(pre, book.Files[1].Hash)[1]
        /\ failed = {} => ret = "duplicate"

\* C2: two committed imports with the same title and the same author list
\* have their files on the same book, and no two book rows have the same
\* title and the same author sequence.
C2_OneBookPerIdentity ==
    /\ \A f, g \in DOMAIN imported :
          (imported[f].Title = imported[g].Title /\ imported[f].Authors = imported[g].Authors)
            => db.files[f].book_id = db.files[g].book_id
    /\ \A b, c \in DOMAIN db.books :
          (b # c /\ db.books[b].title = db.books[c].title)
            => authorsOfBook(db, b) # authorsOfBook(db, c)

\* C3: two committed imports with the same title and the author lists [A,B]
\* and [B,A], A # B, have their files on two distinct book rows.
C3_OrderDistinguishes ==
    \A f, g \in DOMAIN imported :
        (/\ imported[f].Title = imported[g].Title
         /\ Len(imported[f].Authors) = 2
         /\ imported[f].Authors[1] # imported[f].Authors[2]
         /\ imported[g].Authors = <<imported[f].Authors[2], imported[f].Authors[1]>>)
        => /\ db.files[f].book_id # db.files[g].book_id
           /\ db.files[f].book_id \in DOMAIN db.books
           /\ db.files[g].book_id \in DOMAIN db.books
           /\ authorsOfBook(db, db.files[f].book_id) = imported[f].Authors
           /\ authorsOfBook(db, db.files[g].book_id) = imported[g].Authors

C3_Witness ==
    \E f, g \in DOMAIN imported :
        /\ imported[f].Title = imported[g].Title
        /\ imported[f].Authors = <<"A", "B">>
        /\ imported[g].Authors = <<"B", "A">>
        /\ f < g
        /\ db.files[g].book_id = 2

\* C4: when file placement fails, ImportBook returns an error, its
\* transaction is rolled back and the committed store is what it was when
\* the call began, whether the book was new or found.
C4_PlacementFailureRollsBack ==
    (pc = "returned" /\ "place" \in failed) =>
        /\ ret = "error"
        /\ txStatus = "rolledback"
        /\ db = pre

C4_Witness ==
    /\ pc = "returned"
    /\ "place" \in failed
    /\ book.Authors = <<"A", "B">>
    /\ book.Files[1].Tags = <<"t", "u">>
    /\ Len(pre.files) = 1

\* C5: when a store operation issued after Begin fails, the transaction is
\* rolled back when ImportBook returns and the committed store is what it
\* was when the call began.
C5_StoreFailureRollsBack ==
    (pc = "returned" /\ failed \cap StoreOperations # {}) =>
        /\ txStatus = "rolledback"
        /\ db = pre

\* C6: ImportBook returns nil only when its transaction is committed and
\* the file row is in the store, and returns an error whenever a store
\* operation from the duplicate query to the commit has failed.
C6_NoFailureSwallowed ==
    ReturnedFromImport =>
        /\ ret = "nil" =>
              /\ txStatus = "committed"
              /\ selectFilesByHash(db, book.Files[1].Hash) # << >>
        /\ failed \cap (StoreOperations \cup {"commit"}) # {} => ret # "nil"

Min(a, b) == IF a < b THEN a ELSE b
Max(a, b) == IF a > b THEN a ELSE b

\* what SearchPaged is to return for the request recorded in r
pageCounts(r) ==
    LET N == Len(selectMatching(db, r.terms))
    IN  IF r.limit > 0
        THEN /\ Len(r.books) = Min(r.limit, Max(0, N - r.offset))
             /\ r.moreResults = Min(r.moreResultsLimit, Max(0, N - r.offset - r.limit))
        ELSE /\ Len(r.books) = N
             /\ r.moreResults = 0

\* C7: a search that returns no error returns min(limit, max(0, N - offset))
\* books and moreResults = min(cap, max(0, N - offset - limit)) when
\* limit > 0, and all N books and moreResults = 0 when limit = 0.
C7_PageCounts == result.err = "nil" => pageCounts(result)

\* the same for the searches during which no store operation failed
SearchWithoutFailure == (result.err = "nil" /\ result.op = "none") => pageCounts(result)

\* C8: for every committed book, the tokens of the extension, tags and
\* source columns of its search document are the extensions, tags and
\* sources of the files attached to it.
C8_DocumentIsUnionOfFiles ==
    \A b \in DOMAIN db.books :
        /\ b \in DOMAIN db.books_fts
        /\ LET fl == Range(filesOfBook(db, b))
               doc == db.books_fts[b]
           IN  /\ Tokens(doc.extension) = {db.files[f].extension : f \in fl} \ {""}
               /\ Tokens(doc.tags) = UNION {tagsOfFile(db, f) : f \in fl}
               /\ Tokens(doc.source) = {db.files[f].source : f \in fl} \ {""}

\* C9: the tags, extension and source columns of a book's search document
\* are the joined tags, the extension and the source of each file imported
\* for the book, in import order, each appended to the text before it after
\* a space: nothing is replaced and a repeated tag is repeated.
C9_DocumentAppends ==
    \A b \in DOMAIN db.books :
        LET fl == filesOfBook(db, b)
        IN  /\ b \in DOMAIN db.books_fts
            /\ db.books_fts[b].tags =
                  Appended([k \in DOMAIN fl |-> Join(imported[fl[k]].Files[1].Tags, " ")])
            /\ db.books_fts[b].extension =
                  Appended([k \in DOMAIN fl |-> Text(imported[fl[k]].Files[1].Extension)])
            /\ db.books_fts[b].source =
                  Appended([k \in DOMAIN fl |-> Text(imported[fl[k]].Files[1].Source)])

\* no two rows of a name table have the same name
namesUnique(table) ==
    \A j, k \in DOMAIN table : table[j].name = table[k].name => j = k

\* no two rows of a link table are equal
linksUnique(table) == \A j, k \in DOMAIN table : table[j] = table[k] => j = k

\* C10: authors and tags have at most one row per name; an upsert of a name
\* that exists adds no row and links the existing id; a link that exists is
\* not inserted again, and the step that meets it goes on.
C10_UpsertIsIdempotent ==
    [][/\ namesUnique(db'.authors) /\ namesUnique(db'.tags)
       /\ namesUnique(tx'.authors) /\ namesUnique(tx'.tags)
       /\ linksUnique(tx'.books_authors) /\ linksUnique(tx'.files_tags)
       /\ (pc = "authors" /\ pc' = "authors" /\ idx' = idx + 1) =>
             LET ids == selectByName(tx.authors, book.Authors[idx])
                 now == selectByName(tx'.authors, book.Authors[idx])
                 link == [book_id |-> bookId, author_id |-> now[1]]
             IN  /\ Len(now) = 1
                 /\ ids # << >> => (tx'.authors = tx.authors /\ now = ids)
                 /\ link \in Range(tx'.books_authors)
                 /\ link \in Range(tx.books_authors) => tx'.books_authors = tx.books_authors
       /\ (pc = "tags" /\ pc' = "tags" /\ idx' = idx + 1) =>
             LET ids == selectByName(tx.tags, book.Files[1].Tags[idx])
                 now == selectByName(tx'.tags, book.Files[1].Tags[idx])
                 link == [file_id |-> fileId, tag_id |-> now[1]]
             IN  /\ Len(now) = 1
                 /\ ids # << >> => (tx'.tags = tx.tags /\ now = ids)
                 /\ link \in Range(tx'.files_tags)
                 /\ link \in Range(tx.files_tags) => tx'.files_tags = tx.files_tags
      ]_vars

\* an import that names an author twice and a tag twice, and reuses the rows
\* of an earlier import, is committed
C10_Witness ==
    /\ Len(db.files) = 2
    /\ imported[1].Authors = <<"A">>
    /\ imported[1].Files[1].Tags = <<"t">>
    /\ imported[2].Authors = <<"A", "A">>
    /\ imported[2].Files[1].Tags = <<"t", "t">>
    /\ Len(db.authors) = 1
    /\ Len(db.tags) = 1
    /\ Len(db.books_authors) = 2
    /\ Len(db.files_tags) = 2

\* the names of a list without its repetitions, in order of first occurrence
RECURSIVE Distinct(_)
Distinct(names) ==
    IF Len(names) = 0 THEN << >>
    ELSE LET front == Distinct(SubSeq(names, 1, Len(names) - 1))
             last == names[Len(names)]
         IN  IF last \in Range(front) THEN front ELSE Append(front, last)

IsPrefix(a, b) == Len(a) <= Len(b) /\ a = SubSeq(b, 1, Len(a))

\* the stages of GetBooksById whose failure the code reports as an error
\* after a rollback (a failed Begin has no transaction, a failed Commit ends it)
HydrationFailed(r) == r.call = "GetBooksById" /\ r.op # "none"

\* C12: when a stage of GetBooksById fails, the call returns an error and no
\* books, and its transaction is not left open.
C12_HydrationAllOrNothing ==
    HydrationFailed(result) =>
        /\ result.err = "error"
        /\ result.books = << >>
        /\ result.txStatus \in {"none", "rolledback", "commit_failed"}

\* the author list of the import that created book b
createdBy(b) == imported[filesOfBook(db, b)[1]]

\* C13: the authors GetBooksById returns for a book are the authors of the
\* import that created it, in the order of that list (a repeated name once,
\* where it first stands): all of them when no iteration failed, and the
\* first of them otherwise; likewise the tags of each file and its tag list.
C13_LinkOrder ==
    (result.call = "GetBooksById" /\ result.err = "nil") =>
        \A k \in DOMAIN result.books :
            LET b == result.books[k]
            IN  /\ IsPrefix(b.Authors, Distinct(createdBy(b.Id).Authors))
                /\ result.op = "none" => b.Authors = Distinct(createdBy(b.Id).Authors)
                /\ \A j \in DOMAIN b.Files :
                      LET bf == b.Files[j]
                      IN  /\ IsPrefix(bf.Tags, Distinct(imported[bf.Id].Files[1].Tags))
                          /\ result.op = "none" =>
                                bf.Tags = Distinct(imported[bf.Id].Files[1].Tags)

\* the second book is hydrated with the authors B, A and the tags u, t, whose
\* rows the first import created in the order A, B and t, u
C13_Witness ==
    /\ result.call = "GetBooksById"
    /\ result.err = "nil"
    /\ result.op = "none"
    /\ Len(result.books) = 2
    /\ db.authors = <<[name |-> "A"], [name |-> "B"]>>
    /\ db.tags = <<[name |-> "t"], [name |-> "u"]>>
    /\ result.books[2].Authors = <<"B", "A">>
    /\ result.books[2].Files[1].Tags = <<"u", "t">>

\* C14: a call with no file or with two files returns an error at once: no
\* transaction is begun, the store is what it was, placement has not looked
\* at the file system, and no later stage is ever entered with such a list.
C14_PreconditionRejects ==
    /\ (pc = "returned" /\ Len(book.Files) # 1) =>
          /\ ret = "error"
          /\ failed = {"files"}
          /\ txStatus = "none"
          /\ tx = EmptyStore
          /\ db = pre
          /\ fs = {}
    /\ pc \notin {"idle", "returned"} => Len(book.Files) = 1

C14_Witness ==
    /\ pc = "returned"
    /\ Len(book.Files) = 2
    /\ ret = "error"
    /\ Len(db.files) = 1

\* the stages from which ImportBook enters a stage
Predecessors(stage) ==
    CASE stage = "dedup" -> {"idle"}
      [] stage = "resolve" -> {"dedup"}
      [] stage = "insertBook" -> {"resolve"}
      [] stage = "authors" -> {"insertBook", "authors"}
      [] stage = "insertFile" -> {"resolve", "authors"}
      [] stage = "tags" -> {"insertFile", "tags"}
      [] stage = "index" -> {"tags"}
      [] stage = "place" -> {"index"}
      [] stage = "commit" -> {"place"}
      [] stage = "returned" -> {"idle", "dedup", "resolve", "insertBook", "authors",
                                "insertFile", "tags", "index", "place", "commit"}
      [] stage = "idle" -> {"returned"}

\* C17: each stage of ImportBook is entered from the stage before it in the
\* order dedup, resolution, book and author writes, file write, tag writes,
\* index, placement, commit; the committed store changes in the commit step
\* only, and the commit step is entered only when placement has returned
\* success, with the destination in place.
C17_PipelineOrder ==
    [][/\ pc' # pc => pc \in Predecessors(pc')
       /\ db' # db => (pc = "commit" /\ txStatus' = "committed")
       /\ pc' = "commit" =>
             /\ pc = "place"
             /\ "place" \notin failed'
             /\ book'.Files[1].CurrentFilename \in fs'
       /\ txStatus' = "committed" =>
             /\ "place" \notin failed'
             /\ book'.Files[1].CurrentFilename \in fs'
      ]_vars

\* an import of a new book with an author and a tag is committed after a copy
C17_Witness ==
    /\ pc = "returned"
    /\ txStatus = "committed"
    /\ db # pre
    /\ book.Authors = <<"A">>
    /\ book.Files[1].Tags = <<"t">>
    /\ fs = {book.Files[1].OriginalFilename, book.Files[1].CurrentFilename}

\* C19: two committed imports whose files are on the same book have the same
\* author list, element for element.
C19_SharedBookSameAuthors ==
    \A f, g \in DOMAIN imported :
        db.files[f].book_id = db.files[g].book_id
          => imported[f].Authors = imported[g].Authors

\* the same for the author lists without their repetitions
SharedBookSameDistinctAuthors ==
    \A f, g \in DOMAIN imported :
        db.files[f].book_id = db.files[g].book_id
          => Distinct(imported[f].Authors) = Distinct(imported[g].Authors)

C15_UniqueName ==
    result.call = "GetUniqueName" =>
        LET f == result.f
            newName == result.newName
        IN  /\ f \notin fs => newName = f
            /\ f \in fs =>
                  \E i \in 1..(Cardinality(fs) + 1) :
                      /\ newName = TrimSuffix(f, Ext(f)) \o <<" (", Digits[i + 1], ")">> \o Ext(f)
                      /\ \A j \in 1..(i - 1) : numberedName(f, j) \in fs
            /\ newName \notin fs

\* book.epub and book (1).epub exist, and book (2).epub is returned
C15_Witness ==
    /\ result.call = "GetUniqueName"
    /\ result.f = <<"book", ".epub">>
    /\ {<<"book", ".epub">>, <<"book", " (", "1", ")", ".epub">>} \subseteq fs
    /\ result.newName = <<"book", " (", "2", ")", ".epub">>

\* C18: moveFile tries a rename first and copies only when the rename has
\* failed; a failed copy fails the move and leaves src where it was; after
\* a copy the source is removed, and a failed remove leaves src and dst both
\* present with the move reported as done; after every move reported as
\* done dst exists, and src exists only when that remove failed.
C18_MoveFile ==
    result.call = "moveFile" =>
        LET steps == result.steps
            copyFailed == Step("copy", FALSE) \in Range(steps)
            removeFailed == Step("remove", FALSE) \in Range(steps)
        IN  /\ steps[1].op = "rename"
            /\ steps[1].ok => (Len(steps) = 1 /\ result.err = "nil")
            /\ ~steps[1].ok => (Len(steps) >= 2 /\ steps[2].op = "copy")
            /\ copyFailed =>
                  /\ Len(steps) = 2
                  /\ result.err = "error"
                  /\ result.src \in result.before => result.src \in fs
            /\ (Len(steps) >= 2 /\ steps[2].ok) =>
                  (Len(steps) = 3 /\ steps[3].op = "remove" /\ result.err = "nil")
            /\ removeFailed => (result.src \in fs /\ result.dst \in fs)
            /\ result.err = "error" => copyFailed
            /\ result.err = "nil" =>
                  /\ result.dst \in fs
                  /\ result.src \in fs => removeFailed

\* a move by copy whose remove failed
C18_Witness ==
    /\ result.call = "moveFile"
    /\ result.err = "nil"
    /\ result.steps = <<Step("rename", FALSE), Step("copy", TRUE), Step("remove", FALSE)>>
    /\ result.dst \notin result.before
    /\ {result.src, result.dst} \subseteq fs

\* the operations of an import that write to the store
WriteOperations ==
    {"book_insert", "book_lastid", "author_insert", "author_lastid", "author_link",
     "file_insert", "file_lastid", "tag_insert", "tag_lastid", "tag_link",
     "fts_insert", "fts_update"}

\* C11: under every interleaving of the concurrent imports, no two committed
\* file rows have the same hash, no two committed imports carried the same
\* hash, and every committed import has made one file row.
C11_OneFilePerHash ==
    /\ \A f, g \in DOMAIN db.files : db.files[f].hash = db.files[g].hash => f = g
    /\ \A j, k \in DOMAIN imported :
          imported[j].Files[1].Hash = imported[k].Files[1].Hash => j = k
    /\ Len(imported) = Len(db.files)

\* both calls passed the duplicate check with the same hash; the second was
\* refused a write and the first is committed
C11_Witness ==
    /\ procs[1].pc = "returned" /\ procs[1].txStatus = "committed"
    /\ procs[2].pc = "returned" /\ procs[2].ret = "error"
    /\ procs[2].failed \cap WriteOperations # {}
    /\ procs[1].book.Files[1].Hash = procs[2].book.Files[1].Hash
    /\ Len(db.files) = 1

\* calls p and q have both found no row for an author p names: p has read
\* and knows its author list, and q has inserted the row in its open
\* transaction
authorRaced(p) ==
    /\ procs[p].pc \in {"insertBook", "authors"}
    /\ \E k \in DOMAIN procs[p].book.Authors :
          LET name == procs[p].book.Authors[k]
          IN  /\ selectByName(procs[p].tx.authors, name) = << >>
              /\ \E q \in Procs \ {p} :
                    /\ procs[q].lock = "reserved"
                    /\ selectByName(db.authors, name) = << >>
                    /\ selectByName(procs[q].tx.authors, name) # << >>

NamesUniqueUnderConcurrency ==
    /\ namesUnique(db.authors)
    /\ namesUnique(db.tags)
    /\ \A p \in Procs : namesUnique(procs[p].tx.authors) /\ namesUnique(procs[p].tx.tags)

\* a call never looks up a name while another call holds the reserved lock
\* with a row of that name: each call writes its book or file row first
UpsertNeverRaces ==
    \A p \in Procs :
        procs[p].pc \in {"authors", "tags"} => procs[p].lock = "reserved" /\ ~busy(p)

\* every row of the table before is the same row after
RowsKept(before, after) == IsPrefix(before, after)

\* C21: the commit of an import keeps every book, file, author and tag row
\* and every author and tag link that was there, adds one file row, and
\* leaves the search document of every other book as it was; the document
\* of the book keeps its author, series, title and filename and what its
\* other columns held; an import that resolved to an existing book adds no
\* book row and no author link, whatever series the request carries, and an
\* import of a new book adds one book row.
C21_ImportOnlyAdds ==
    [][(pc = "commit" /\ txStatus' = "committed") =>
          /\ RowsKept(db.books, db'.books)
          /\ RowsKept(db.files, db'.files)
          /\ RowsKept(db.authors, db'.authors)
          /\ RowsKept(db.tags, db'.tags)
          /\ RowsKept(db.books_authors, db'.books_authors)
          /\ RowsKept(db.files_tags, db'.files_tags)
          /\ Len(db'.files) = Len(db.files) + 1
          /\ db'.files[Len(db'.files)].book_id = bookId
          /\ \A d \in DOMAIN db.books_fts :
                /\ d \in DOMAIN db'.books_fts
                /\ d # bookId => db'.books_fts[d] = db.books_fts[d]
                /\ db'.books_fts[d].author = db.books_fts[d].author
                /\ db'.books_fts[d].series = db.books_fts[d].series
                /\ db'.books_fts[d].title = db.books_fts[d].title
                /\ db'.books_fts[d].filename = db.books_fts[d].filename
                /\ IsPrefix(db.books_fts[d].tags, db'.books_fts[d].tags)
                /\ IsPrefix(db.books_fts[d].extension, db'.books_fts[d].extension)
                /\ IsPrefix(db.books_fts[d].source, db'.books_fts[d].source)
          /\ DOMAIN db'.books_fts \ DOMAIN db.books_fts \subseteq {bookId}
          /\ found =>
                /\ db'.books = db.books
                /\ db'.books_authors = db.books_authors
                /\ db'.authors = db.authors
          /\ ~found => Len(db'.books) = Len(db.books) + 1
      ]_vars

\* beside a book with its own document, a file with the series S and a tag
\* is committed for a book that has no series, and only that book's
\* document is merged
C21_Witness ==
    /\ pc = "returned"
    /\ txStatus = "committed"
    /\ ret = "nil"
    /\ book.Series = "S"
    /\ book.Files[1].Tags = <<"u">>
    /\ Len(pre.books) = 2
    /\ db.books = pre.books
    /\ db.books_authors = pre.books_authors
    /\ db.books[2].series = ""
    /\ Len(db.files) = Len(pre.files) + 1
    /\ db.files[Len(db.files)].book_id = 2
    /\ db.books_fts[1] = pre.books_fts[1]
    /\ db.books_fts[2] = mergedDocument(pre.books_fts[2], book.Files[1])

====
